---- MODULE Spec2Model ----
(***************************************************************************)
(* A model of the Elecraft K/KX clone-mode driver                          *)
(* (src/chirp/drivers/elecraft.py): the command codec, the bulk image      *)
(* assembler sync_in, the dirty-tracked write-back sync_out and the        *)
(* channel write set_memory, the channel read get_memory, and the serial   *)
(* exchange (command, _command) with the identification probe get_id.      *)
(*                                                                         *)
(* Text (commands, replies, names) is a sequence of one-character strings. *)
(* A byte buffer is a sequence of numbers 0..255; the byte at address a is *)
(* element a + 1.                                                          *)
(***************************************************************************)
EXTENDS Integers, Sequences, FiniteSets, TLC

VARIABLES
    mmap,       \* self._mmap: [kind, data]
    memobj,     \* self._memobj: the buffer the parsed structure views
    Changed,    \* self.Changed: one flag per slot
    ret,        \* how the last call ended, and what it was given
    built,      \* the commands the last sync_out built, with their slots
    cmd,        \* the last command text a codec function returned
    calls,      \* calls of the driver so far
    LOCK,       \* the module's threading.Lock: "free" or the thread holding it
    LAST_BAUD,  \* the module's LAST_BAUD
    thr,        \* per thread: where it is in get_id / command and its locals
    port        \* the serial port: baudrate, bytes waiting to be read, and
                \* the last write or read made on it

vars == <<mmap, memobj, Changed, ret, built, cmd, calls, LOCK, LAST_BAUD, thr, port>>

(***************************************************************************)
(* Program constants.                                                      *)
(***************************************************************************)
MINMEM == 0
MAXMEM == 16704
MEMLEN == 64
MEM_START == 3072
MEM_LEN == 64
NMEMS == 100
NSPLS == 100
NSLOTS == 200
LET_ == 52
LOFFSET == 250
OSTEP == 20000

READ_CMD == <<"E", "R">>
WRIT_CMD == <<"E", "W">>
FF5 == <<255, 255, 255, 255, 255>>

(***************************************************************************)
(* Bounds of the model.                                                    *)
(***************************************************************************)
MaxCalls == 3           \* calls of sync_in, set_memory, sync_out in one behaviour
FaultWindow == 3        \* a faulty reply is the reply to this window of a sync_in

Min(a, b) == IF a < b THEN a ELSE b
Max(a, b) == IF a > b THEN a ELSE b

(***************************************************************************)
(* Python's sequence slice s[lo:hi] with 0 <= lo, and hi possibly          *)
(* negative (counted from the end).                                        *)
(***************************************************************************)
Slice(s, lo, hi) ==
    LET h == IF hi < 0 THEN Max(Len(s) + hi, 0) ELSE Min(hi, Len(s))
    IN  [k \in 1..Max(h - lo, 0) |-> s[lo + k]]

\* sum(bs), by halves
RECURSIVE SumRange(_, _, _)
SumRange(bs, lo, hi) ==
    IF lo > hi THEN 0
    ELSE IF lo = hi THEN bs[lo]
    ELSE LET mid == (lo + hi) \div 2
         IN  SumRange(bs, lo, mid) + SumRange(bs, mid + 1, hi)

Sum(bs) == SumRange(bs, 1, Len(bs))

\* the sequences ss[lo], ..., ss[hi] joined in order, by halves
RECURSIVE ConcatRange(_, _, _)
ConcatRange(ss, lo, hi) ==
    IF lo > hi THEN <<>>
    ELSE IF lo = hi THEN ss[lo]
    ELSE LET mid == (lo + hi) \div 2
         IN  ConcatRange(ss, lo, mid) \o ConcatRange(ss, mid + 1, hi)

(***************************************************************************)
(* Number formatting: f'{n:04x}', f'{n:02x}', f'{n:2x}' and str(n).        *)
(***************************************************************************)
HexDigits ==
    <<"0", "1", "2", "3", "4", "5", "6", "7",
      "8", "9", "a", "b", "c", "d", "e", "f">>

HexVal ==
    [c \in {HexDigits[k] : k \in 1..16} |->
        CHOOSE v \in 0..15 : HexDigits[v + 1] = c]
    @@ [c \in {"A", "B", "C", "D", "E", "F"} |->
        CASE c = "A" -> 10 [] c = "B" -> 11 [] c = "C" -> 12
          [] c = "D" -> 13 [] c = "E" -> 14 [] c = "F" -> 15]

Pow16(k) == CASE k = 0 -> 1 [] k = 1 -> 16 [] k = 2 -> 256 [] k = 3 -> 4096
              [] k = 4 -> 65536 [] k = 5 -> 1048576

NumHexDigits(n) == CHOOSE w \in 1..5 : n < Pow16(w) /\ (w = 1 \/ n >= Pow16(w - 1))

HexW(n, w) == [k \in 1..w |-> HexDigits[((n \div Pow16(w - k)) % 16) + 1]]

\* the format spec 04x / 02x: zero-padded to a minimum width
FmtZeroHex(n, w) == HexW(n, Max(w, NumHexDigits(n)))

\* the format spec 2x: padded with spaces to a minimum width of 2
FmtSpaceHex2(n) == IF n < 16 THEN <<" ">> \o HexW(n, 1) ELSE HexW(n, NumHexDigits(n))

DecDigits == <<"0", "1", "2", "3", "4", "5", "6", "7", "8", "9">>

\* str(n) for 0 <= n < 1000
Str(n) ==
    IF n < 10 THEN <<DecDigits[n + 1]>>
    ELSE IF n < 100 THEN <<DecDigits[(n \div 10) + 1], DecDigits[(n % 10) + 1]>>
    ELSE <<DecDigits[(n \div 100) + 1], DecDigits[((n \div 10) % 10) + 1],
           DecDigits[(n % 10) + 1]>>

\* bytes.hex()
HexOf(bs) ==
    [k \in 1..(2 * Len(bs)) |->
        IF k % 2 = 1 THEN HexDigits[(bs[(k + 1) \div 2] \div 16) + 1]
                     ELSE HexDigits[(bs[k \div 2] % 16) + 1]]

(***************************************************************************)
(* bytes.fromhex(s): white space is skipped between bytes; each byte is    *)
(* two adjacent hexadecimal digits; anything else raises ValueError.       *)
(***************************************************************************)
FromHex(s) ==
    LET pos == SelectSeq([i \in 1..Len(s) |-> i], LAMBDA i : s[i] # " ")
        n   == Len(pos)
        ok  == /\ n % 2 = 0
               /\ \A k \in 1..n : s[pos[k]] \in DOMAIN HexVal
               /\ \A k \in 1..(n \div 2) : pos[2 * k] = pos[2 * k - 1] + 1
    IN  IF ok
        THEN [ok |-> TRUE,
              bytes |-> [k \in 1..(n \div 2) |->
                           16 * HexVal[s[pos[2 * k - 1]]] + HexVal[s[pos[2 * k]]]]]
        ELSE [ok |-> FALSE, bytes |-> <<>>]

\* x ^ 0xFF for a byte x
Xor255(x) == 255 - x

(***************************************************************************)
(* ElecraftRadio.sync_checksum(hex): the last byte of the parsed text is   *)
(* dropped, the rest is summed.                                            *)
(***************************************************************************)
\* a checksum that forgets the decrement: what C8_ReadChecksum must reject
sync_checksum_no_decrement(hex) ==
    LET b == Slice(FromHex(hex).bytes, 0, -1)
    IN  Xor255(Sum(b) % 256)

sync_checksum(hex) ==
    LET b == Slice(FromHex(hex).bytes, 0, -1)
    IN  Xor255((Sum(b) - 1) % 256)

(***************************************************************************)
(* _cmd_get_memory(number)                                                 *)
(***************************************************************************)
cmd_get_memory(number) ==
    LET address  == MEM_START + number * MEM_LEN
        message  == FmtZeroHex(address, 4) \o FmtZeroHex(MEM_LEN, 2)
        checksum == Xor255((Sum(FromHex(message).bytes) - 1) % 256)
    IN  READ_CMD \o message \o FmtSpaceHex2(checksum)

(***************************************************************************)
(* The radio on the other end of the port.  Its memory holds, at address   *)
(* a, the byte RadioByte(a): every eighth 64-byte block is erased (0xFF),  *)
(* the others hold a pattern that differs from block to block.             *)
(***************************************************************************)
RadioByte(a) ==
    IF (a \div 64) % 8 = 7 THEN 255 ELSE 1 + (((a \div 64) * 5 + (a % 64)) % 250)

RadioBlock(a, n) == [j \in 1..n |-> RadioByte(a + j - 1)]

ReplyKinds == {"good", "timeout", "truncated", "bad_checksum", "garbled"}
FaultKinds == ReplyKinds \ {"good"}

\* bytes of a truncated reply's payload that still arrive
TruncBytes == 20

(***************************************************************************)
(* command(port, cmd): the text the exchange returns for a read command,   *)
(* delimiter removed.  A good reply echoes opcode, address and length and  *)
(* carries the block in hexadecimal and a checksum.  A faulty one is       *)
(* empty (nothing arrived within the timeout), cut short (the timeout      *)
(* struck mid-reply), carries a payload byte that does not match its       *)
(* checksum, or carries a character that is no hexadecimal digit.          *)
(***************************************************************************)
command(text, kind) ==
    LET hdr     == Slice(text, 0, 8)
        address == LET b == FromHex(Slice(text, 2, 6)).bytes IN b[1] * 256 + b[2]
        length  == FromHex(Slice(text, 6, 8)).bytes[1]
        block   == RadioBlock(address, length)
        body    == Slice(FromHex(Slice(text, 2, 8)).bytes, 0, 3) \o block
        csum    == FmtZeroHex(Xor255((Sum(body) - 1) % 256), 2)
        good    == hdr \o HexOf(block) \o csum
    IN  CASE kind = "good"         -> good
          [] kind = "timeout"      -> <<>>
          [] kind = "truncated"    -> Slice(good, 0, 8 + 2 * TruncBytes + 2)
          [] kind = "bad_checksum" ->
                hdr \o HexOf([block EXCEPT ![1] = (@ + 1) % 256]) \o csum
          [] kind = "garbled"      -> [good EXCEPT ![9] = "?"]

(***************************************************************************)
(* sync_in, lines 485-494: which windows are requested, the command sent   *)
(* for one, and the loop that gathers the payloads into _data.             *)
(***************************************************************************)
SyncInRequested(i) ==
    LET idx == (i - MINMEM) \div MEMLEN
    IN  idx < NMEMS \/ (99 < idx /\ idx <= 99 + NSPLS)

SyncInCmd(i) ==
    LET c    == FmtZeroHex(i, 4) \o FmtZeroHex(64, 2)
        csum == sync_checksum(c \o <<"0", "0">>)
    IN  <<"E", "R">> \o c \o FmtSpaceHex2(csum)

NoFault == [w |-> 0, kind |-> "good"]

\* range(MINMEM, MAXMEM, MEMLEN) without the windows the loop skips
SyncInWindows ==
    SelectSeq([n \in 1..((MAXMEM - MINMEM + MEMLEN - 1) \div MEMLEN) |->
                  MINMEM + (n - 1) * MEMLEN],
              SyncInRequested)

\* lines 492-494 for the k-th requested window: the exchange and the
\* parse of the reply without its first 8 and last 2 characters
SyncInPayload(k, kind) ==
    FromHex(Slice(command(SyncInCmd(SyncInWindows[k]), kind), 8, -2))

\* the same for good replies, for every window (a constant: evaluated once)
SyncInGoodPayloads ==
    <<>> \o [k \in 1..Len(SyncInWindows) |-> SyncInPayload(k, "good")]

(***************************************************************************)
(* The loop of sync_in.  Window k's reply is parsed as it arrives; the     *)
(* first reply that bytes.fromhex rejects raises out of the loop, so no    *)
(* later window is requested.  Otherwise _data is the payloads in the      *)
(* order of the requests.                                                  *)
(***************************************************************************)
SyncInLoop(plan) ==
    LET n      == Len(SyncInWindows)
        parsed == [k \in 1..n |->
                     IF plan.w = k THEN SyncInPayload(k, plan.kind)
                                   ELSE SyncInGoodPayloads[k]]
        bad    == {k \in 1..n : ~parsed[k].ok}
    IN  IF bad # {}
        THEN LET k == CHOOSE x \in bad : \A y \in bad : x <= y
             IN  [ok |-> FALSE, data |-> <<>>, nreq |-> k]
        ELSE [ok |-> TRUE,
              data |-> ConcatRange([k \in 1..n |-> parsed[k].bytes], 1, n),
              nreq |-> n]

\* a process_mmap that leaves the flags alone: what C7_SyncInResetsChanged
\* must reject
process_mmap_keeps_Changed == Changed

\* process_mmap: the parsed structure views the new image; Changed is reset
process_mmap_Changed == [s \in 0..(NSLOTS - 1) |-> FALSE]

(***************************************************************************)
(* sync_out, lines 515-526: the command built for one changed slot and     *)
(* the loop over range(MEM_START, MAXMEM, MEMLEN).  Changed has NSLOTS     *)
(* entries; indexing it past its end raises IndexError, and slicing a      *)
(* _mmap that is None raises TypeError: either ends the loop there.        *)
(***************************************************************************)
SyncOutCmd(addr, data) ==
    LET c    == FmtZeroHex(addr, 4) \o FmtZeroHex(64, 2) \o HexOf(data)
        csum == sync_checksum(c \o <<"0", "0">>)
    IN  <<"E", "R">> \o c \o Str(csum)

\* a test that sends every slot: what C3_SyncOutOnlyDirty must reject
SyncOutChanged_always(flags, i) == TRUE

\* line 518, the test on the slot's flag
SyncOutChanged(flags, i) == flags[i]

SyncOutLoop(image, flags) ==
    LET n       == (MAXMEM - MEM_START + MEMLEN - 1) \div MEMLEN
        raises  == {i \in 0..(n - 1) :
                       \/ i \notin DOMAIN flags
                       \/ SyncOutChanged(flags, i) /\ image.kind = "None"}
        stop    == IF raises = {} THEN n
                   ELSE CHOOSE x \in raises : \A y \in raises : x <= y
        visited == 0..(stop - 1)
        dirty   == SelectSeq([i \in 1..stop |-> i - 1],
                                 LAMBDA i : SyncOutChanged(flags, i))
    IN  [outcome |-> IF raises = {} THEN "ok"
                     ELSE IF stop \notin DOMAIN flags THEN "IndexError"
                     ELSE "TypeError",
         visited |-> stop,
         built   |-> [k \in 1..Len(dirty) |->
                        LET addr == MEM_START + dirty[k] * MEMLEN
                        IN  [slot |-> dirty[k],
                             text |-> SyncOutCmd(addr,
                                        Slice(image.data, addr, addr + 64))]],
         flags   |-> [s \in DOMAIN flags |->
                        IF s \in visited THEN FALSE ELSE flags[s]]]

(***************************************************************************)
(* _cmd_set_memory(number, mem): the last byte of mem is replaced by       *)
(* -sum(mem[:-1]) % 0x100 and the whole is sent as hexadecimal after the   *)
(* write opcode.                                                           *)
(***************************************************************************)
cmd_set_memory(number, mem) ==
    LET c1 == (0 - Sum(Slice(mem, 0, -1))) % 256
        b  == [mem EXCEPT ![Len(mem)] = c1]
    IN  WRIT_CMD \o HexOf(b)

(***************************************************************************)
(* freq_to_radio and radio_to_freq                                         *)
(***************************************************************************)
freq_to_radio(f) ==
    LET bm == f \div 1000000
        f1 == f - bm * 1000000
        bT == f1 \div 10000
        f2 == f1 - bT * 10000
        bt == f2 \div 100
        f3 == f2 - bt * 100
        bh == f3 \div 10
        bo == f3 - bh * 10
    IN  IF f # 0 THEN <<bm, bT, bt, bh, bo>> ELSE FF5

\* a decoder that weighs the third byte as thousands: what
\* C11_FreqRoundTrip must reject
radio_to_freq_thousands(b) ==
    IF b # FF5
    THEN b[1] * 1000000 + b[2] * 10000 + b[3] * 1000 + b[4] * 10 + b[5]
    ELSE 0

radio_to_freq(b) ==
    IF b # FF5
    THEN b[1] * 1000000 + b[2] * 10000 + b[3] * 100 + b[4] * 10 + b[5]
    ELSE 0

(***************************************************************************)
(* ALLMODESd: mode name -> <<mode, submode, lsb, rev, flag4>>, in the      *)
(* order of the dict's keys (ALLMODES).                                    *)
(***************************************************************************)
ALLMODES ==
    <<"AM", "AM-S/USB", "AM-S/LSB", "CW", "CW-Rev", "DATA A", "DATA A/Rev",
      "FM", "LSB", "USB", "AFSK-A", "FSK-D", "PSK-D", "DATA-A/Rev",
      "AFSK-A/Rev", "FSK-D/Rev", "PSK-D/Rev">>

ALLMODESd ==
    [m \in {ALLMODES[k] : k \in 1..Len(ALLMODES)} |->
        CASE m = "AM"         -> <<4, 0, 0, 0, 0>>
          [] m = "AM-S/USB"   -> <<4, 0, 0, 0, 10>>
          [] m = "AM-S/LSB"   -> <<4, 0, 0, 0, 8>>
          [] m = "CW"         -> <<0, 0, 0, 0, 0>>
          [] m = "CW-Rev"     -> <<0, 0, 0, 1, 0>>
          [] m = "DATA A"     -> <<3, 0, 1, 0, 0>>
          [] m = "DATA A/Rev" -> <<3, 0, 0, 0, 0>>
          [] m = "FM"         -> <<5, 0, 0, 0, 0>>
          [] m = "LSB"        -> <<1, 0, 0, 0, 0>>
          [] m = "USB"        -> <<2, 0, 0, 0, 0>>
          [] m = "AFSK-A"     -> <<3, 2, 1, 0, 0>>
          [] m = "FSK-D"      -> <<3, 4, 1, 0, 0>>
          [] m = "PSK-D"      -> <<3, 6, 1, 0, 0>>
          [] m = "DATA-A/Rev" -> <<3, 0, 0, 0, 0>>
          [] m = "AFSK-A/Rev" -> <<3, 2, 0, 0, 0>>
          [] m = "FSK-D/Rev"  -> <<3, 4, 0, 0, 0>>
          [] m = "PSK-D/Rev"  -> <<3, 6, 0, 0, 0>>]

\* list(ALLMODESd.values()).index(t), 0-based; -1 stands for the ValueError
ModeIndex(t) ==
    LET hits == {k \in 1..Len(ALLMODES) : ALLMODESd[ALLMODES[k]] = t}
    IN  IF hits = {} THEN -1
        ELSE (CHOOSE k \in hits : \A j \in hits : k <= j) - 1

(***************************************************************************)
(* Elecraft_TONES, in tenths of a hertz: 0.0, the 50 CTCSS tones of        *)
(* chirp_common.TONES, 1750.0.                                             *)
(***************************************************************************)
Elecraft_TONES ==
    <<0,
      670, 693, 719, 744, 770, 797, 825, 854, 885, 915,
      948, 974, 1000, 1035, 1072, 1109, 1148, 1188, 1230, 1273,
      1318, 1365, 1413, 1462, 1514, 1567, 1598, 1622, 1655, 1679,
      1713, 1738, 1773, 1799, 1835, 1862, 1899, 1928, 1966, 1995,
      2035, 2065, 2107, 2181, 2257, 2291, 2336, 2418, 2503, 2541,
      17500>>

\* Elecraft_TONES.index(t), 0-based; -1 stands for the ValueError
TonesIndex(t) ==
    IF \E k \in 1..Len(Elecraft_TONES) : Elecraft_TONES[k] = t
    THEN (CHOOSE k \in 1..Len(Elecraft_TONES) :
              Elecraft_TONES[k] = t /\ \A j \in 1..(k - 1) : Elecraft_TONES[j] # t) - 1
    ELSE -1

(***************************************************************************)
(* VALID_CHARS and the translation table A2KX.  Ord gives the cp1252 code  *)
(* of the characters the model uses.                                       *)
(***************************************************************************)
VALID_CHARS ==
    <<" ", "A", "B", "C", "D", "E", "F", "G", "H", "I", "J", "K", "L", "M",
      "N", "O", "P", "Q", "R", "S", "T", "U", "V", "W", "X", "Y", "Z",
      "0", "1", "2", "3", "4", "5", "6", "7", "8", "9",
      "*", "+", "/", "@", "_">>

Ord ==
    [c \in {VALID_CHARS[k] : k \in 2..27} |->
        64 + (CHOOSE k \in 1..26 : VALID_CHARS[k + 1] = c)]
    @@ [c \in {VALID_CHARS[k] : k \in 28..37} |->
        48 + (CHOOSE k \in 0..9 : VALID_CHARS[k + 28] = c)]
    @@ [c \in {" ", "*", "+", "/", "@", "_", ".", "-", "a", "z", "!"} |->
        CASE c = " " -> 32 [] c = "*" -> 42 [] c = "+" -> 43 [] c = "/" -> 47
          [] c = "@" -> 64 [] c = "_" -> 95 [] c = "." -> 46 [] c = "-" -> 45
          [] c = "a" -> 97 [] c = "z" -> 122 [] c = "!" -> 33]

\* A2KX[b]: maketrans(VALID_CHARS padded with '.' to 256, bytes(range(256)));
\* of the positions that hold the same character the last one counts
A2KX(b) ==
    IF b = Ord["."] THEN 255
    ELSE IF \E k \in 1..Len(VALID_CHARS) : Ord[VALID_CHARS[k]] = b
    THEN (CHOOSE k \in 1..Len(VALID_CHARS) : Ord[VALID_CHARS[k]] = b) - 1
    ELSE b

\* s.ljust(n)[:n]
Ljust(s, n) == [k \in 1..n |-> IF k <= Len(s) THEN s[k] ELSE " "]

(***************************************************************************)
(* MEM_FORMAT, struct radiomem: a 64-byte record at MEM_START + 64 * n.    *)
(* A field is [off, shift, width]: the byte offset in the record and the   *)
(* bits it takes there; of the bit-fields declared in one byte the first   *)
(* takes the most significant bits.  A store is a field with a value; a    *)
(* load has width 0 and changes nothing.                                   *)
(***************************************************************************)
RecordLen == 64

Pow2(k) == CASE k = 0 -> 1 [] k = 1 -> 2 [] k = 2 -> 4 [] k = 3 -> 8 [] k = 4 -> 16
             [] k = 5 -> 32 [] k = 6 -> 64 [] k = 7 -> 128 [] k = 8 -> 256

St(off, shift, width, val) == [off |-> off, shift |-> shift, width |-> width, val |-> val]
StBytes(off, bs) == [k \in 1..Len(bs) |-> St(off + k - 1, 0, 8, bs[k])]
Ld(off, n) == [k \in 1..n |-> St(off + k - 1, 0, 0, 0)]

F_freq(bs)     == StBytes(0, bs)
F_vfob(bs)     == StBytes(5, bs)
F_modeb(v)     == <<St(10, 4, 4, v)>>
F_modea(v)     == <<St(10, 0, 4, v)>>
F_digimode(v)  == <<St(11, 4, 4, v)>>
F_b75(v)       == <<St(11, 3, 1, v)>>
F_lsb(v)       == <<St(11, 2, 1, v)>>
F_unk(v)       == <<St(11, 1, 1, v)>>
F_digit(v)     == <<St(11, 0, 1, v)>>
F_ant(v)       == <<St(12, 7, 1, v)>>
\* rev laid on the bit of nb
F_rev_on_nb(v) == <<St(12, 5, 1, v)>>
F_rev(v)       == <<St(12, 6, 1, v)>>
F_nb(v)        == <<St(12, 5, 1, v)>>
F_unk0(v)      == <<St(12, 4, 1, v)>>
F_pre(v)       == <<St(12, 3, 1, v)>>
F_unk01(v)     == <<St(12, 1, 2, v)>>
F_att(v)       == <<St(12, 0, 1, v)>>
F_rxant(v)     == <<St(13, 7, 1, v)>>
F_flag3(v)     == <<St(13, 1, 6, v)>>
F_split(v)     == <<St(13, 0, 1, v)>>
F_flag4(v)     == <<St(14, 0, 8, v)>>
F_unk1(v)      == <<St(15, 5, 3, v)>>
F_xv(v)        == <<St(15, 4, 1, v)>>
F_band(v)      == <<St(15, 0, 4, v)>>
F_subtone(v)   == <<St(16, 0, 8, v)>>
F_offset(v)    == <<St(17, 0, 8, v)>>
F_unk3(v)      == <<St(18, 3, 5, v)>>
F_tone(v)      == <<St(18, 2, 1, v)>>
F_minus(v)     == <<St(18, 1, 1, v)>>
F_duplex(v)    == <<St(18, 0, 1, v)>>
F_flags(bs)    == StBytes(19, bs)
F_unknown(bs)  == StBytes(23, bs)
F_label(bs)    == StBytes(32, bs)
\* comment laid four bytes too far, so that it runs into the next record: what
\* C2_SetMemoryFrame must reject
F_comment_shifted(bs) == StBytes(41, bs)
F_comment(bs)  == StBytes(37, bs)
F_unk4(v)      == <<St(61, 0, 8, v)>>
F_unk5(v)      == <<St(62, 0, 8, v)>>
F_unk6(v)      == <<St(63, 0, 8, v)>>

\* the byte old after one store
StoreByte(old, st) ==
    LET unit == Pow2(st.shift)
        span == Pow2(st.width)
    IN  old - ((old \div unit) % span) * unit + (st.val % span) * unit

RECURSIVE StoreAll(_, _, _)
StoreAll(old, sts, k) ==
    IF k > Len(sts) THEN old ELSE StoreAll(StoreByte(old, sts[k]), sts, k + 1)

(***************************************************************************)
(* The loads and stores ops carried out in order on the record at address  *)
(* base of buffer buf.  One that reaches past the end of the buffer raises *)
(* (the memory map holds exactly the bytes it was built from); those       *)
(* before it have taken effect.                                            *)
(***************************************************************************)
Access(buf, base, ops) ==
    LET out  == {k \in 1..Len(ops) : base + ops[k].off >= Len(buf)}
        stop == IF out = {} THEN Len(ops) + 1
                ELSE CHOOSE x \in out : \A y \in out : x <= y
        done == Slice(ops, 0, stop - 1)
        offs == {done[k].off : k \in 1..Len(done)}
        lo   == base + (CHOOSE x \in offs : \A y \in offs : x <= y)
        hi   == base + (CHOOSE x \in offs : \A y \in offs : x >= y) + 1
    IN  [ok   |-> out = {},
         data |-> IF offs = {} THEN buf
                  ELSE SubSeq(buf, 1, lo)
                       \o [j \in 1..(hi - lo) |->
                             StoreAll(buf[lo + j],
                                      SelectSeq(done,
                                                LAMBDA st : base + st.off = lo + j - 1),
                                      1)]
                       \o SubSeq(buf, hi + 1, Len(buf))]

\* a blank_mem that forgets the last three bytes of the record
blank_mem_without_unk ==
    F_freq(FF5) \o F_vfob(FF5) \o F_modeb(15) \o F_modea(15) \o F_digimode(15)
    \o F_b75(1) \o F_lsb(1) \o F_unk(1) \o F_digit(1)
    \o F_ant(1) \o F_rev(1) \o F_nb(1) \o F_unk0(1) \o F_pre(1) \o F_unk01(3) \o F_att(1)
    \o F_rxant(1) \o F_flag3(63) \o F_split(1) \o F_flag4(255)
    \o F_unk1(7) \o F_xv(1) \o F_band(15) \o F_subtone(255) \o F_offset(255)
    \o F_unk3(31) \o F_tone(1) \o F_minus(1) \o F_duplex(1)
    \o F_flags(<<255, 255, 255, 255>>) \o F_unknown(FF5 \o Slice(FF5, 0, -1))
    \o F_label([k \in 1..5 |-> 255]) \o F_comment([k \in 1..24 |-> 255])

(***************************************************************************)
(* blank_mem: every field of the record is set to its all-ones value.      *)
(***************************************************************************)
blank_mem ==
    F_freq(FF5) \o F_vfob(FF5) \o F_modeb(15) \o F_modea(15) \o F_digimode(15)
    \o F_b75(1) \o F_lsb(1) \o F_unk(1) \o F_digit(1)
    \o F_ant(1) \o F_rev(1) \o F_nb(1) \o F_unk0(1) \o F_pre(1) \o F_unk01(3) \o F_att(1)
    \o F_rxant(1) \o F_flag3(63) \o F_split(1) \o F_flag4(255)
    \o F_unk1(7) \o F_xv(1) \o F_band(15) \o F_subtone(255) \o F_offset(255)
    \o F_unk3(31) \o F_tone(1) \o F_minus(1) \o F_duplex(1)
    \o F_flags(<<255, 255, 255, 255>>) \o F_unknown(FF5 \o Slice(FF5, 0, -1))
    \o F_label([k \in 1..5 |-> 255]) \o F_comment([k \in 1..24 |-> 255])
    \o F_unk4(255) \o F_unk5(255) \o F_unk6(255)

(***************************************************************************)
(* set_memory, lines 720-758, on the record at base of buf: the accesses   *)
(* it makes in order, up to the statement that raises, and how it ends.    *)
(* memory.extra['vfoa'] and ['vfob'] are taken as parse_freq returns them, *)
(* in hertz; memory.rtone in tenths of a hertz.                            *)
(***************************************************************************)
SetMemoryOps(buf, base, memory) ==
    LET cur    == Slice(buf, base, base + 5)
        sFreq  == IF memory.freq # 0
                  THEN Ld(0, 5) \o
                       (IF cur = FF5 THEN F_freq(freq_to_radio(memory.freq))
                                     ELSE F_freq(freq_to_radio(memory.vfoa)))
                  ELSE F_freq(freq_to_radio(memory.vfoa))
        okA    == memory.modea \in DOMAIN ALLMODESd
        ta     == ALLMODESd[memory.modea]
        sModeA == F_modea(ta[1]) \o F_digimode(ta[2]) \o F_lsb(ta[3])
                  \o F_rev(ta[4]) \o F_flag4(ta[5])
        sVfob  == F_vfob(freq_to_radio(memory.vfob))
        okB    == memory.modeb \in DOMAIN ALLMODESd
        tb     == ALLMODESd[memory.modeb]
        sModeB == F_modeb(tb[1]) \o Ld(10, 1) \o
                  (IF tb[1] = 3 /\ ta[1] # 3
                   THEN F_digimode(tb[2]) \o F_lsb(tb[3]) \o F_rev(tb[4]) \o F_flag4(tb[5])
                   ELSE <<>>)
        name5  == Ljust(memory.name, 5)
        sLabel == F_label([k \in 1..5 |-> A2KX(Ord[name5[k]])])
        okT    == memory.burst \/ TonesIndex(memory.rtone) >= 0
        sTone  == F_subtone(IF memory.burst THEN LET_ + 1 ELSE TonesIndex(memory.rtone))
        mo     == memory.offset \div OSTEP
        sRest  == F_offset(IF mo > LOFFSET THEN 0 ELSE mo)
                  \o F_minus(IF memory.duplex = "-" THEN 1 ELSE 0)
                  \o F_comment(LET c == Ljust(memory.comment, 24)
                               IN  [k \in 1..24 |-> Ord[c[k]]])
    IN  IF ~okA THEN [ops |-> sFreq, raises |-> "KeyError"]
        ELSE IF ~okB THEN [ops |-> sFreq \o sModeA \o sVfob, raises |-> "KeyError"]
        ELSE IF ~okT
        THEN [ops |-> sFreq \o sModeA \o sVfob \o sModeB \o sLabel, raises |-> "ValueError"]
        ELSE [ops |-> sFreq \o sModeA \o sVfob \o sModeB \o sLabel \o sTone \o sRest,
              raises |-> "no"]

(***************************************************************************)
(* set_memory(memory): [outcome, data, dirty], data being the buffer the   *)
(* parsed structure views afterwards and dirty whether line 758 ran.       *)
(***************************************************************************)
SetMemoryResult(present, buf, memory) ==
    LET base == MEM_START + RecordLen * memory.number
    IN  IF ~present \/ ~memory.extra
        THEN [outcome |-> "RadioError", data |-> buf, dirty |-> FALSE]
        ELSE IF memory.empty
        THEN LET r == Access(buf, base, blank_mem)
             IN  [outcome |-> IF r.ok THEN "ok" ELSE "IndexError",
                  data |-> r.data, dirty |-> FALSE]
        ELSE LET p == SetMemoryOps(buf, base, memory)
                 r == Access(buf, base, p.ops)
             IN  [outcome |-> IF ~r.ok THEN "IndexError"
                              ELSE IF p.raises # "no" THEN p.raises ELSE "ok",
                  data |-> r.data,
                  dirty |-> r.ok /\ p.raises = "no"]

(***************************************************************************)
(* get_memory.  Rd reads a field of the 64-byte record rec; KX2A is the    *)
(* translation table of line 180; RstripLen(w) is the length of w without  *)
(* its trailing 0xFF and 0x00 bytes (line 572).                            *)
(***************************************************************************)
Rd(rec, f) == (rec[f[1].off + 1] \div Pow2(f[1].shift)) % Pow2(f[1].width)
RdBytes(rec, f) == [k \in 1..Len(f) |-> rec[f[k].off + 1]]

KX2A(b) == IF b < Len(VALID_CHARS) THEN VALID_CHARS[b + 1] ELSE "."

RstripLen(w) ==
    LET keep == {k \in 1..Len(w) : w[k] \notin {0, 255}}
    IN  IF keep = {} THEN 0 ELSE CHOOSE k \in keep : \A j \in keep : j <= k

\* str.rstrip(): trailing blanks removed
RstripStr(t) ==
    LET keep == {k \in 1..Len(t) : t[k] # " "}
    IN  IF keep = {} THEN <<>>
        ELSE SubSeq(t, 1, CHOOSE k \in keep : \A j \in keep : j <= k)

\* line 545: the CHIRP-level memory get_memory starts from.  self.ECMemory
\* resolves in the base classes of the radio, which are not in this source;
\* it is taken to give a memory with chirp's defaults.
NewMemory == [freq |-> 0, empty |-> FALSE, name |-> <<>>]

\* lines 587-598 and 606-617: the tuple looked up for Mode A and for Mode B
ModeATuple(rec, nulr) ==
    LET modea == Rd(rec, F_modea(0))
        digi  == Rd(rec, F_digimode(0))
        flag4 == Rd(rec, F_flag4(0))
        rev   == IF nulr THEN 0 ELSE Rd(rec, F_rev(0))
        f4    == IF flag4 = 255 THEN 0 ELSE flag4
    IN  IF modea = 3
        THEN <<IF modea = 15 THEN 3 ELSE modea,
               IF digi = 15 THEN 0 ELSE digi,
               IF nulr THEN 0 ELSE Rd(rec, F_lsb(0)), rev, f4>>
        ELSE <<IF modea = 15 THEN 4 ELSE modea, 0, 0, rev, f4>>

ModeBTuple(rec, nulr) ==
    LET modea == Rd(rec, F_modea(0))
        modeb == Rd(rec, F_modeb(0))
        digi  == Rd(rec, F_digimode(0))
        flag4 == Rd(rec, F_flag4(0))
        rev   == IF nulr THEN 0 ELSE Rd(rec, F_rev(0))
        f4    == IF flag4 = 255 THEN 0 ELSE flag4
    IN  IF modeb = 3
        THEN <<IF modeb = 15 THEN 3 ELSE modea,
               IF digi = 15 THEN 0 ELSE digi,
               IF nulr THEN 0 ELSE Rd(rec, F_lsb(0)), rev, f4>>
        ELSE <<IF modeb = 15 THEN 4 ELSE modeb, 0, 0, rev, f4>>

(***************************************************************************)
(* get_memory(number) for an integer number: view is the buffer the parsed *)
(* structure views, image is _mmap, flags is Changed.  The result is how   *)
(* the call ends and, when it returns, the memory it returns.  The comment *)
(* of the memory is left out.                                              *)
(***************************************************************************)
GetMemoryResult(present, view, image, flags, number) ==
    LET base   == MEM_START + RecordLen * number
        rec    == Slice(view, base, base + RecordLen)
        nulr   == RstripLen(Slice(image, number * 64 + 3072, number * 64 + 3072 + 64)) <= 4
        ai     == ModeIndex(ModeATuple(rec, nulr))
        bi     == ModeIndex(ModeBTuple(rec, nulr))
        sub    == Rd(rec, F_subtone(0))
        off    == Rd(rec, F_offset(0)) * OSTEP
        label  == RdBytes(rec, F_label(FF5))
    IN  IF ~present
        THEN [outcome |-> "ok", empty |-> TRUE, freq |-> NewMemory.freq,
              name |-> NewMemory.name]
        ELSE IF number \notin 0..(NSLOTS - 1) \/ Len(rec) < RecordLen
        THEN [outcome |-> "IndexError"]
        ELSE IF ai < 0 THEN [outcome |-> "ValueError", line |-> 600]
        ELSE IF bi < 0 THEN [outcome |-> "ValueError", line |-> 623]
        ELSE IF sub = LET_ THEN [outcome |-> "IndexError", line |-> 654]
        ELSE [outcome |-> "ok",
              empty   |-> nulr,
              vfoa    |-> radio_to_freq(RdBytes(rec, F_freq(FF5))),
              modea   |-> ALLMODES[ai + 1],
              vfob    |-> radio_to_freq(RdBytes(rec, F_vfob(FF5))),
              modeb   |-> ALLMODES[bi + 1],
              burst   |-> ~nulr /\ sub > LET_,
              change  |-> flags[number],
              freq    |-> radio_to_freq(RdBytes(rec, F_freq(FF5))),
              mode    |-> ALLMODES[Rd(rec, F_modea(0)) + 1],
              name    |-> IF label = FF5 THEN <<>>
                          ELSE RstripStr([k \in 1..5 |-> KX2A(label[k])]),
              offset  |-> off,
              duplex  |-> IF off = 0 THEN "off"
                          ELSE IF Rd(rec, F_minus(0)) = 1 THEN "-" ELSE "+",
              rtone   |-> IF sub > LET_ THEN Elecraft_TONES[1]
                          ELSE Elecraft_TONES[Max(0, sub) + 1]]

(***************************************************************************)
(* The serial side.  Two threads share the port: "probe" runs get_id,      *)
(* "reader" sends read commands through command().  What the radio sends   *)
(* in answer to a request is put in port.inbuf when the request is         *)
(* written; a read takes what is there.                                    *)
(***************************************************************************)
Threads == {"probe", "reader"}

IDEN_CMD == <<"I", "D">>
XTRA_CMD == <<"O", "M">>
LAST_DELIMITER == <<";", "">>
COMMAND_RESP_BUFSIZE == 200
LAST_BAUD_0 == 38400
FlushLen == 25

\* line 255
Bauds == <<4800, 9600, 19200, 38400, 57600, 115200>>

RADIO_IDS ==
    (<<"I", "D", "0", "1", "7">> :> "Elecraft")
    @@ (<<"I", "D", "0", "1", "7", "X">> :> "K3")
    @@ (<<"I", "D", "0", "1", "7", "1">> :> "KX2")
    @@ (<<"I", "D", "0", "1", "7", "2">> :> "KX3")
    @@ (<<"I", "D", "0", "1", "7", "4">> :> "K4")

\* a byte that cp1252 does not decode
Undecodable == "\\x81"

Contains(t, c) == \E k \in 1..Len(t) : t[k] = c
EndsWith(t, c) == Len(t) > 0 /\ t[Len(t)] = c

\* str.strip(): blanks removed at both ends
Strip(t) ==
    LET keep == {k \in 1..Len(t) : t[k] # " "}
    IN  IF keep = {} THEN <<>>
        ELSE SubSeq(t, CHOOSE k \in keep : \A j \in keep : k <= j,
                       CHOOSE k \in keep : \A j \in keep : j <= k)

\* t.split(" ")[1] for a t that holds a blank: the text between the first
\* blank and the next
Split1(t) ==
    LET first == CHOOSE k \in 1..Len(t) : t[k] = " " /\ \A j \in 1..(k - 1) : t[j] # " "
        rest  == SubSeq(t, first + 1, Len(t))
        stop  == {k \in 1..Len(rest) : rest[k] = " "}
    IN  IF stop = {} THEN rest
        ELSE SubSeq(rest, 1, (CHOOSE k \in stop : \A j \in stop : k <= j) - 1)

\* t[-n:]
Tail_(t, n) == SubSeq(t, Max(Len(t) - n, 0) + 1, Len(t))

\* the rates tried in the order of the list, LAST_BAUD last
ProbeOrder_not_reversed(last) ==
    SelectSeq(Bauds, LAMBDA b : b # last) \o <<last>>

\* lines 255-258 and 266: the rates in the order get_id tries them
\* (list.remove raises ValueError for a rate that is not in the list)
ProbeOrder(last) ==
    LET bauds == SelectSeq(Bauds, LAMBDA b : b # last) \o <<last>>
    IN  [k \in 1..Len(bauds) |-> bauds[Len(bauds) + 1 - k]]

\* bounds of the serial side: get_id calls, command() calls of the reader,
\* and the reads after which the one-second deadline has certainly passed
MaxProbes == 2
MaxReaderCalls == 1
MaxReads == 2

\* the command the reader sends: the read command of the first window
ReaderCmd == SyncInCmd(MINMEM)

\* the answers to the reader's command: none, the whole one, one cut short
ReaderReplies ==
    {<<>>, command(ReaderCmd, "good") \o <<";">>, command(ReaderCmd, "truncated")}

(***************************************************************************)
(* What the radio sends in answer to a request (the delimiter included,    *)
(* when it gets that far): nothing, the whole answer, an answer cut short, *)
(* or bytes that do not decode because the rate is wrong.                  *)
(***************************************************************************)
RepliesTo(c) ==
    IF c = IDEN_CMD
    THEN {<<>>,
          <<"I", "D", "0", "1", "7", ";">>,
          <<"I", "D", " ", "K", "X", "3", ";">>,
          <<"?", ";">>,
          <<"I", "D", "0">>,
          <<Undecodable>>}
    ELSE IF c = XTRA_CMD
    THEN {<<>>,
          <<"O", "M", " ", "A", "P", "0", "2", ";">>,
          <<"O", "M", " ", "A", "4", "-", "-", "-", ";">>,
          <<Undecodable>>}
    ELSE ReaderReplies

ThreadInit ==
    [pc |-> "idle", cmd |-> <<>>, result |-> <<>>, reads |-> 0, back |-> "idle",
     resp |-> <<>>, todo |-> <<>>, i |-> 0, ids |-> 0, probed |-> <<>>,
     val |-> <<>>, start |-> 0, matched |-> FALSE, out |-> [kind |-> "none"],
     runs |-> 0, ex |-> [kind |-> "none"]]

IoInit ==
    /\ LOCK = "free"
    /\ LAST_BAUD = LAST_BAUD_0
    /\ thr = [t \in Threads |-> ThreadInit]
    /\ port = [baudrate |-> 38400, inbuf |-> <<>>,
               access |-> [by |-> "none", op |-> "none", during |-> {}]]

\* the threads other than t that have written a request and not yet
\* finished reading its answer
InExchange(t) == {u \in Threads \ {t} : thr[u].pc = "read"}

Init ==
    /\ mmap = [kind |-> "None", data |-> <<>>]
    /\ memobj = [kind |-> "None", data |-> <<>>]
    /\ Changed = [s \in 0..(NSLOTS - 1) |-> FALSE]
    /\ ret = [op |-> "init"]
    /\ built = <<>>
    /\ cmd = [by |-> "none", text |-> <<>>]
    /\ calls = 0
    /\ IoInit

(***************************************************************************)
(* sync_in.  _mmap is emptied first; the parsed structure keeps viewing    *)
(* the buffer it was parsed over.  Only a loop that ran to its end         *)
(* installs the gathered bytes and calls process_mmap.                     *)
(***************************************************************************)
Detached ==
    IF memobj.kind = "view" THEN [kind |-> "detached", data |-> mmap.data] ELSE memobj

sync_in(plan) ==
    LET r == SyncInLoop(plan)
    IN  /\ calls < MaxCalls
        /\ calls' = calls + 1
        /\ IF r.ok
           THEN /\ mmap' = [kind |-> "MemoryMapBytes", data |-> r.data]
                /\ memobj' = [kind |-> "view", data |-> <<>>]
                /\ Changed' = process_mmap_Changed
           ELSE /\ mmap' = [kind |-> "bytearray", data |-> <<>>]
                /\ memobj' = Detached
                /\ UNCHANGED Changed
        /\ ret' = [op |-> "sync_in", outcome |-> IF r.ok THEN "ok" ELSE "ValueError",
                   plan |-> plan, nreq |-> r.nreq,
                   dirty |-> {s \in DOMAIN Changed : Changed[s]}]
        /\ UNCHANGED <<built, cmd, LOCK, LAST_BAUD, thr, port>>

FaultPlans ==
    {NoFault} \cup [w : {FaultWindow}, kind : FaultKinds]

(***************************************************************************)
(* set_memory(memory).  The stores go to the buffer the parsed structure   *)
(* views: _mmap itself, or the earlier image if _mmap was replaced since.  *)
(***************************************************************************)
set_memory(memory) ==
    LET r == SetMemoryResult(memobj.kind # "None",
                             IF memobj.kind = "view" THEN mmap.data ELSE memobj.data,
                             memory)
    IN  /\ calls < MaxCalls
        /\ calls' = calls + 1
        /\ mmap' = IF memobj.kind = "view" THEN [mmap EXCEPT !.data = r.data] ELSE mmap
        /\ memobj' = IF memobj.kind = "detached" THEN [memobj EXCEPT !.data = r.data]
                     ELSE memobj
        /\ Changed' = IF r.dirty THEN [Changed EXCEPT ![memory.number] = TRUE]
                      ELSE Changed
        /\ ret' = [op |-> "set_memory", outcome |-> r.outcome,
                   number |-> memory.number, empty |-> memory.empty,
                   memory |-> memory]
        /\ UNCHANGED <<built, cmd, LOCK, LAST_BAUD, thr, port>>

\* the memories the host hands to set_memory
MemUSB(n) ==
    [number |-> n, empty |-> FALSE, extra |-> TRUE, freq |-> 14074500,
     vfoa |-> 14074500, modea |-> "USB", vfob |-> 7030000, modeb |-> "CW",
     name |-> <<"T", "E", "S", "T">>, burst |-> FALSE, rtone |-> 885,
     offset |-> 600000, duplex |-> "-", comment |-> <<"H", "I">>]

MemData(n) ==
    [MemUSB(n) EXCEPT !.freq = 0, !.vfoa = 7040000, !.modea = "CW",
                      !.modeb = "DATA A", !.name = <<"a", ".", "-">>,
                      !.burst = TRUE, !.offset = 0, !.duplex = ""]

MemBadTone(n) == [MemUSB(n) EXCEPT !.rtone = 1234]

MemEmpty(n) == [MemUSB(n) EXCEPT !.empty = TRUE]

MemNoExtra(n) == [MemUSB(n) EXCEPT !.empty = TRUE, !.extra = FALSE]

\* slot 7 is erased in the radio, slot 8 is not, slot 152 lies past the
\* end of the image sync_in builds
Memories ==
    {MemUSB(7), MemUSB(8), MemData(7), MemData(8), MemEmpty(7), MemEmpty(8),
     MemBadTone(7), MemNoExtra(7), MemUSB(152), MemEmpty(152)}

(***************************************************************************)
(* sync_out                                                                *)
(***************************************************************************)
sync_out ==
    LET r == SyncOutLoop(mmap, Changed)
    IN  /\ calls < MaxCalls
        /\ calls' = calls + 1
        /\ Changed' = r.flags
        /\ built' = r.built
        /\ ret' = [op |-> "sync_out", outcome |-> r.outcome, visited |-> r.visited]
        /\ UNCHANGED <<mmap, memobj, cmd, LOCK, LAST_BAUD, thr, port>>

Next ==
    \/ \E plan \in FaultPlans : sync_in(plan)
    \/ \E memory \in Memories : set_memory(memory)
    \/ sync_out

Spec == Init /\ [][Next]_vars

(***************************************************************************)
(* get_memory(number): nothing of the session changes (line 639 is not     *)
(* reached: the memory get_memory starts from has freq 0).                 *)
(***************************************************************************)
get_memory(number) ==
    /\ ret' = [op |-> "get_memory", number |-> number,
               got |-> GetMemoryResult(memobj.kind # "None",
                                       IF memobj.kind = "view" THEN mmap.data
                                                               ELSE memobj.data,
                                       mmap.data, Changed, number)]
    /\ UNCHANGED <<mmap, memobj, Changed, built, cmd, calls, LOCK, LAST_BAUD, thr, port>>

(***************************************************************************)
(* get_memory on its own: the session holds the image a sync_in gives,     *)
(* with the record rec at slot DecodeSlot.  The records are populated      *)
(* ones, with every combination of the mode fields below, and erased ones  *)
(* (all 0xFF or all 0x00) with up to MaxSparse bytes of other value.       *)
(***************************************************************************)
DecodeSlot == 7
MaxSparse == 5

AllFF == [k \in 1..RecordLen |-> 255]

PopulatedRec(ma, mb, d, l, r, f4) ==
    Access(AllFF, 0,
           F_freq(<<14, 7, 45, 0, 0>>) \o F_vfob(<<7, 3, 0, 0, 0>>)
           \o F_modea(ma) \o F_modeb(mb) \o F_digimode(d) \o F_lsb(l) \o F_rev(r)
           \o F_flag4(f4) \o F_subtone(9) \o F_offset(30)
           \o F_label(<<20, 5, 19, 20, 0>>)
           \o F_comment([k \in 1..24 |-> 32])).data

SparseRec(fill, at) == [k \in 1..RecordLen |-> IF k - 1 \in at THEN 65 ELSE fill]

SparseAt == {at \in SUBSET {0, 1, 2, 3, 4, 33, 63} : Cardinality(at) <= MaxSparse}

\* a USB record with the subtone byte, the offset byte and the minus bit given
ToneOffsetRec(sub, off, minus) ==
    Access(PopulatedRec(2, 0, 0, 0, 0, 0), 0,
           F_subtone(sub) \o F_offset(off) \o F_minus(minus)).data

DecodeRecords ==
    {PopulatedRec(ma, mb, d, l, r, f4) :
        ma \in {0, 1, 2, 3, 4, 5, 6, 15}, mb \in {0, 3}, d \in {0, 2, 5, 15},
        l \in {0, 1}, r \in {0, 1}, f4 \in {0, 8, 10, 255}}
    \cup {SparseRec(fill, at) : fill \in {0, 255}, at \in SparseAt}
    \cup {ToneOffsetRec(sub, off, minus) :
             sub \in {0, 1, 9, 50, 51, 52, 53, 255},
             off \in {0, 1, 30, 250, 251, 255}, minus \in {0, 1}}

GoodImage == SyncInLoop(NoFault).data

ImageWith(rec) ==
    SubSeq(GoodImage, 1, MEM_START + RecordLen * DecodeSlot) \o rec
    \o SubSeq(GoodImage, MEM_START + RecordLen * (DecodeSlot + 1) + 1, Len(GoodImage))

DecodeInit ==
    /\ \E rec \in DecodeRecords :
          mmap = [kind |-> "MemoryMapBytes", data |-> ImageWith(rec)]
    /\ memobj = [kind |-> "view", data |-> <<>>]
    /\ Changed = [s \in 0..(NSLOTS - 1) |-> FALSE]
    /\ ret = [op |-> "init"]
    /\ built = <<>>
    /\ cmd = [by |-> "none", text |-> <<>>]
    /\ calls = 0
    /\ IoInit

DecodeNext == get_memory(DecodeSlot)

DecodeSpec == DecodeInit /\ [][DecodeNext]_vars

(***************************************************************************)
(* set_memory followed by get_memory on one slot: the session holds the    *)
(* image a sync_in gives, with one of RoundRecords at slot DecodeSlot; the *)
(* host sets a memory there once and reads the slot back.                  *)
(***************************************************************************)
PatternRec == [k \in 1..RecordLen |-> (k * 37) % 256]

RoundRecords ==
    {AllFF, [k \in 1..RecordLen |-> 0], PopulatedRec(3, 3, 2, 1, 1, 8), PatternRec}

ModeNames == {ALLMODES[k] : k \in 1..Len(ALLMODES)}

RoundNames ==
    {<<>>, <<"A">>, <<"T", "E", "S", "T">>, <<"A", "B", " ", "C", "D">>,
     <<" ", " ", "A">>, <<"A", " ", " ">>, <<"Z", "9", "*", "+", "/">>,
     <<"@", "_", "0">>, <<"a">>, <<"A", "-", "z">>, <<"!">>,
     <<".", ".", ".", ".", ".">>, <<"K", ".">>}

RoundMemories ==
    {[MemUSB(DecodeSlot) EXCEPT !.modea = a, !.modeb = b] : a, b \in ModeNames}
    \cup {[MemUSB(DecodeSlot) EXCEPT !.name = nm] : nm \in RoundNames}
    \cup {MemData(DecodeSlot), MemEmpty(DecodeSlot), MemBadTone(DecodeSlot)}

RoundInit ==
    /\ \E rec \in RoundRecords :
          mmap = [kind |-> "MemoryMapBytes", data |-> ImageWith(rec)]
    /\ memobj = [kind |-> "view", data |-> <<>>]
    /\ Changed = [s \in 0..(NSLOTS - 1) |-> FALSE]
    /\ ret = [op |-> "init"]
    /\ built = <<>>
    /\ cmd = [by |-> "none", text |-> <<>>]
    /\ calls = 0
    /\ IoInit

RoundNext ==
    \/ calls = 0 /\ \E memory \in RoundMemories : set_memory(memory)
    \/ get_memory(DecodeSlot)

RoundSpec == RoundInit /\ [][RoundNext]_vars

(***************************************************************************)
(* The serial side.  Two threads share the port: "probe" runs get_id,      *)
(* "reader" calls command() with a read command.  A call of command() is   *)
(* three kinds of step: LOCK is taken (line 245), the request is written   *)
(* (line 225), and the answer is read until the delimiter or the deadline  *)
(* (lines 228-232); the value is returned and LOCK released at lines       *)
(* 234-246.  port.access records the last access to the port and the       *)
(* threads that were then between their request and the end of its answer. *)
(* Of a thread's fields, probed, start, matched and ex are records of what *)
(* has happened: the rates tried in this get_id, LAST_BAUD when it began,  *)
(* whether an answer held a blank or was a known ID, and how the last      *)
(* exchange ended.                                                         *)
(***************************************************************************)
Session == <<mmap, memobj, Changed, ret, built, cmd, calls>>

Accessed(t, op) == [by |-> t, op |-> op, during |-> InExchange(t)]

\* line 245: with LOCK
Acquire(t) ==
    /\ thr[t].pc = "acquire"
    /\ LOCK = "free"
    /\ LOCK' = t
    /\ thr' = [thr EXCEPT ![t].pc = "write"]
    /\ UNCHANGED <<Session, LAST_BAUD, port>>

\* lines 216-227: the request goes out, the radio's answer is on its way
Write(t) ==
    /\ thr[t].pc = "write"
    /\ \E reply \in RepliesTo(thr[t].cmd) :
         port' = [port EXCEPT !.inbuf = @ \o reply,
                              !.access = Accessed(t, "write")]
    /\ thr' = [thr EXCEPT ![t].pc = "read", ![t].result = <<>>, ![t].reads = 0,
                          ![t].ids = IF thr[t].cmd = IDEN_CMD THEN @ + 1 ELSE @]
    /\ UNCHANGED <<Session, LOCK, LAST_BAUD>>

\* lines 228-246: one port.read(200); then the loop goes round, or command()
\* returns the text (lines 234-240), or decode raises UnicodeDecodeError,
\* which get_id catches for its first ID command only (lines 273-278)
Read(t) ==
    /\ thr[t].pc = "read"
    /\ \E expired \in BOOLEAN :
         /\ (thr[t].reads + 1 >= MaxReads) => expired
         /\ LET n      == Min(Len(port.inbuf), COMMAND_RESP_BUFSIZE)
                got    == SubSeq(port.inbuf, 1, n)
                result == thr[t].result \o got
                done   == EndsWith(result, LAST_DELIMITER[1])
            IN  /\ port' = [port EXCEPT
                              !.inbuf = SubSeq(port.inbuf, n + 1, Len(port.inbuf)),
                              !.access = Accessed(t, "read")]
                /\ IF Contains(got, Undecodable)
                   THEN /\ LOCK' = "free"
                        /\ thr' = [thr EXCEPT
                              ![t].pc = IF thr[t].back = "check1"
                                        THEN "next_baud" ELSE "idle",
                              ![t].out = IF thr[t].back = "check1"
                                         THEN @ ELSE [kind |-> "UnicodeDecodeError"],
                              ![t].result = <<>>, ![t].reads = 0,
                              ![t].ex = [kind |-> "raised"]]
                   ELSE IF ~done /\ ~expired
                   THEN /\ LOCK' = LOCK
                        /\ thr' = [thr EXCEPT ![t].result = result,
                                              ![t].reads = @ + 1]
                   ELSE LET val == Strip(IF done
                                         THEN SubSeq(result, 1, Len(result) - 1)
                                         ELSE result)
                        IN  /\ LOCK' = "free"
                            /\ thr' = [thr EXCEPT
                                  ![t].pc = thr[t].back,
                                  ![t].result = <<>>, ![t].reads = 0,
                                  ![t].val = val,
                                  ![t].ex = [kind |-> "returned",
                                             timedout |-> ~done,
                                             received |-> result,
                                             val |-> val]]
    /\ UNCHANGED <<Session, LAST_BAUD>>

\* the reader: command(port, cmd)
ReaderCall(t) ==
    /\ t = "reader"
    /\ thr[t].pc = "idle"
    /\ thr[t].runs < MaxReaderCalls
    /\ thr' = [thr EXCEPT ![t].pc = "acquire", ![t].cmd = ReaderCmd,
                          ![t].back = "idle", ![t].runs = @ + 1,
                          ![t].out = [kind |-> "none"], ![t].ex = [kind |-> "none"]]
    /\ UNCHANGED <<Session, LOCK, LAST_BAUD, port>>

\* lines 254-261: get_id starts
GetIdStart(t) ==
    /\ t = "probe"
    /\ thr[t].pc = "idle"
    /\ thr[t].runs < MaxProbes
    /\ LET ok == \E k \in 1..Len(Bauds) : Bauds[k] = LAST_BAUD
       IN  thr' = [thr EXCEPT
                     ![t].pc = IF ok THEN "next_baud" ELSE "idle",
                     ![t].out = IF ok THEN [kind |-> "none"]
                                ELSE [kind |-> "ValueError"],
                     ![t].todo = IF ok THEN ProbeOrder(LAST_BAUD) ELSE <<>>,
                     ![t].probed = <<>>, ![t].start = LAST_BAUD,
                     ![t].i = 0, ![t].ids = 0, ![t].cmd = <<>>,
                     ![t].matched = FALSE,
                     ![t].resp = <<>>, ![t].val = <<>>,
                     ![t].ex = [kind |-> "none"],
                     ![t].runs = @ + 1]
    /\ UNCHANGED <<Session, LOCK, LAST_BAUD, port>>

\* lines 266-270 and 308: the next rate, or RadioError when none is left
GetIdNextBaud(t) ==
    /\ thr[t].pc = "next_baud"
    /\ IF thr[t].todo = <<>>
       THEN /\ thr' = [thr EXCEPT ![t].pc = "idle",
                                  ![t].resp = <<>>, ![t].val = <<>>,
                                  ![t].ex = [kind |-> "none"],
                                  ![t].out = [kind |-> "RadioError"]]
            /\ port' = port
       ELSE /\ thr' = [thr EXCEPT ![t].pc = "delimiter",
                                  ![t].i = Head(thr[t].todo),
                                  ![t].todo = Tail(thr[t].todo),
                                  ![t].probed = Append(@, Head(thr[t].todo)),
                                  ![t].resp = <<>>, ![t].val = <<>>,
                                  ![t].ex = [kind |-> "none"],
                                  ![t].ids = 0]
            /\ port' = [port EXCEPT !.baudrate = Head(thr[t].todo)]
    /\ UNCHANGED <<Session, LOCK, LAST_BAUD>>

\* line 271: port.write of the delimiter; a radio that is listening may
\* answer the empty command
GetIdDelimiter(t) ==
    /\ thr[t].pc = "delimiter"
    /\ \E reply \in {<<>>, <<"?", ";">>} :
         port' = [port EXCEPT !.inbuf = @ \o reply,
                              !.access = Accessed(t, "write")]
    /\ thr' = [thr EXCEPT ![t].pc = "flush"]
    /\ UNCHANGED <<Session, LOCK, LAST_BAUD>>

\* lines 272-274: port.read(25), then command(port, IDEN_CMD)
GetIdFlush(t) ==
    /\ thr[t].pc = "flush"
    /\ port' = [port EXCEPT
                  !.inbuf = SubSeq(@, Min(Len(@), FlushLen) + 1, Len(@)),
                  !.access = Accessed(t, "read")]
    /\ thr' = [thr EXCEPT ![t].pc = "acquire", ![t].cmd = IDEN_CMD,
                          ![t].back = "check1"]
    /\ UNCHANGED <<Session, LOCK, LAST_BAUD>>

\* line 296 onwards, for the answer resp: ask for more, or go on to the
\* next rate
GetIdKnown(t, resp) ==
    IF resp \in DOMAIN RADIO_IDS
    THEN [thr EXCEPT ![t].pc = "acquire", ![t].cmd = XTRA_CMD,
                     ![t].back = "check3", ![t].resp = resp,
                     ![t].matched = TRUE]
    ELSE [thr EXCEPT ![t].pc = "next_baud", ![t].resp = resp]

\* lines 283 and 293: return resp.split(" ")[1]
GetIdReturn(t, resp) ==
    [thr EXCEPT ![t].pc = "idle", ![t].resp = resp, ![t].matched = TRUE,
                ![t].out = [kind |-> "model", model |-> Split1(resp)]]

\* a get_id that asks again after any answer without a blank
GetIdCheck1_asks_again(t) ==
    /\ thr[t].pc = "check1"
    /\ LET resp == thr[t].val
       IN  IF Contains(resp, " ")
           THEN /\ LAST_BAUD' = thr[t].i
                /\ thr' = GetIdReturn(t, resp)
           ELSE /\ LAST_BAUD' = LAST_BAUD
                /\ thr' = [thr EXCEPT ![t].pc = "acquire", ![t].cmd = IDEN_CMD,
                                      ![t].back = "check2", ![t].resp = resp]
    /\ UNCHANGED <<Session, LOCK, port>>

\* lines 281-290 and 296: the answer to the first ID command at this rate
GetIdCheck1(t) ==
    /\ thr[t].pc = "check1"
    /\ LET resp == thr[t].val
       IN  IF Contains(resp, " ")
           THEN /\ LAST_BAUD' = thr[t].i
                /\ thr' = GetIdReturn(t, resp)
           ELSE IF Contains(resp, "?")
           THEN /\ LAST_BAUD' = LAST_BAUD
                /\ thr' = [thr EXCEPT ![t].pc = "acquire", ![t].cmd = IDEN_CMD,
                                      ![t].back = "check2", ![t].resp = resp]
           ELSE /\ LAST_BAUD' = LAST_BAUD
                /\ thr' = GetIdKnown(t, resp)
    /\ UNCHANGED <<Session, LOCK, port>>

\* lines 291-296: the answer to the second ID command at this rate
GetIdCheck2(t) ==
    /\ thr[t].pc = "check2"
    /\ LAST_BAUD' = thr[t].i
    /\ LET resp == thr[t].val
       IN  thr' = IF Contains(resp, " ") THEN GetIdReturn(t, resp)
                  ELSE GetIdKnown(t, resp)
    /\ UNCHANGED <<Session, LOCK, port>>

\* lines 298-306: the answer to the OM command picks the model
GetIdCheck3(t) ==
    /\ thr[t].pc = "check3"
    /\ LET xt   == thr[t].val
           resp == IF Tail_(xt, 4) = <<"4", "-", "-", "-">>
                   THEN <<"I", "D", "0", "1", "7", "4">>
                   ELSE IF Tail_(xt, 2) = <<"-", "-">>
                   THEN <<"I", "D", "0", "1", "7", "X">>
                   ELSE IF Tail_(xt, 2) = <<"0", "1">>
                   THEN <<"I", "D", "0", "1", "7", "1">>
                   ELSE IF Tail_(xt, 2) = <<"0", "2">>
                   THEN <<"I", "D", "0", "1", "7", "2">>
                   ELSE thr[t].resp
       IN  thr' = [thr EXCEPT ![t].pc = "idle", ![t].resp = resp,
                              ![t].out = [kind |-> "model",
                                          model |-> RADIO_IDS[resp]]]
    /\ UNCHANGED <<Session, LOCK, LAST_BAUD, port>>

PortNext ==
    \E t \in Threads :
        \/ ReaderCall(t)
        \/ GetIdStart(t)
        \/ GetIdNextBaud(t)
        \/ GetIdDelimiter(t)
        \/ GetIdFlush(t)
        \/ Acquire(t)
        \/ Write(t)
        \/ Read(t)
        \/ GetIdCheck1(t)
        \/ GetIdCheck2(t)
        \/ GetIdCheck3(t)

PortSpec == Init /\ [][PortNext]_vars

(***************************************************************************)
(* The codec on its own: each command builder applied to its inputs.       *)
(***************************************************************************)
CmdGetMemory(number) ==
    /\ cmd' = [by |-> "_cmd_get_memory", arg |-> number,
               text |-> cmd_get_memory(number)]
    /\ UNCHANGED <<mmap, memobj, Changed, ret, built, calls, LOCK, LAST_BAUD, thr, port>>

CmdSyncIn(i) ==
    /\ cmd' = [by |-> "sync_in", arg |-> i, text |-> SyncInCmd(i)]
    /\ UNCHANGED <<mmap, memobj, Changed, ret, built, calls, LOCK, LAST_BAUD, thr, port>>

CmdSetMemory(number) ==
    /\ cmd' = [by |-> "_cmd_set_memory", arg |-> number,
               text |-> cmd_set_memory(number,
                                       RadioBlock(MEM_START + number * MEM_LEN, MEM_LEN))]
    /\ UNCHANGED <<mmap, memobj, Changed, ret, built, calls, LOCK, LAST_BAUD, thr, port>>

\* the frequencies handed to freq_to_radio: every megahertz count of
\* FreqMHz with every remainder of FreqRest
FreqMHz == {0, 1, 7, 14, 144, 255}
FreqRest == {0, 1, 9, 10, 90, 99, 100, 4500, 9900, 9999, 10000, 74500,
             500000, 909090, 990000, 999999}
Freqs == {m * 1000000 + r : m \in FreqMHz, r \in FreqRest}

CmdFreq(f) ==
    /\ cmd' = [by |-> "freq_to_radio", arg |-> f, bytes |-> freq_to_radio(f),
               back |-> radio_to_freq(freq_to_radio(f))]
    /\ UNCHANGED <<mmap, memobj, Changed, ret, built, calls, LOCK, LAST_BAUD, thr, port>>

\* a mode name through ALLMODESd and back through the lookup of get_memory
\* (lines 600-602)
CmdMode(m) ==
    /\ cmd' = [by |-> "mode", arg |-> m, tuple |-> ALLMODESd[m],
               back |-> ALLMODES[ModeIndex(ALLMODESd[m]) + 1]]
    /\ UNCHANGED <<mmap, memobj, Changed, ret, built, calls, LOCK, LAST_BAUD, thr, port>>

CodecNext ==
    \/ \E number \in 0..(NSLOTS - 1) : CmdGetMemory(number)
    \/ \E k \in 1..Len(SyncInWindows) : CmdSyncIn(SyncInWindows[k])
    \/ \E number \in {0, 7, NSLOTS - 1} : CmdSetMemory(number)
    \/ \E f \in Freqs : CmdFreq(f)
    \/ \E m \in DOMAIN ALLMODESd : CmdMode(m)

CodecSpec == Init /\ [][CodecNext]_vars

(***************************************************************************)
(* Properties.                                                             *)
(***************************************************************************)
SlotAddr(s) == MEM_START + MEMLEN * s

\* int(s, 16): blanks around the digits are skipped
IntHex(s) ==
    LET d == SelectSeq(s, LAMBDA c : c # " ")
    IN  Sum([k \in 1..Len(d) |-> HexVal[d[k]] * Pow16(Len(d) - k)])

IsHex(s) == \A k \in 1..Len(s) : s[k] \in {HexDigits[j] : j \in 1..16}

\* C1: after a set_memory on slot n that returns normally, Changed[n] is
\* true, the write of an empty memory included.
C1_SetMemoryMarksSlot ==
    (ret.op = "set_memory" /\ ret.outcome = "ok") => Changed[ret.number]

\* C2: a set_memory on slot n leaves Changed[m] as it was for every m other
\* than n, and leaves every byte outside the 64 bytes at 0x0C00 + 64n as it
\* was, in the image and in the buffer the parsed structure views.
SameOutside(new, old, n) ==
    /\ Len(new) = Len(old)
    /\ Slice(new, 0, SlotAddr(n)) = Slice(old, 0, SlotAddr(n))
    /\ Slice(new, SlotAddr(n) + 64, Len(new)) = Slice(old, SlotAddr(n) + 64, Len(old))

C2_SetMemoryFrame ==
    [][\A memory \in Memories :
          set_memory(memory) =>
              /\ \A m \in DOMAIN Changed \ {memory.number} : Changed'[m] = Changed[m]
              /\ DOMAIN Changed' = DOMAIN Changed
              /\ mmap'.kind = mmap.kind
              /\ SameOutside(mmap'.data, mmap.data, memory.number)
              /\ SameOutside(memobj'.data, memobj.data, memory.number)]_vars

\* a record was written while another slot was marked
C2_Witness ==
    /\ ret.op = "set_memory" /\ ret.outcome = "ok" /\ ~ret.empty
    /\ Changed[ret.number]
    /\ \E m \in DOMAIN Changed \ {ret.number} : Changed[m]
    /\ Len(mmap.data) > SlotAddr(ret.number) + 64

\* C3: sync_out builds a command for a slot only if the slot's flag is true
\* when the slot is visited; every slot whose flag was true at the start and
\* that was visited has its flag false afterwards; no command is built for
\* a slot whose flag was false.
C3_SyncOutOnlyDirty ==
    [][sync_out =>
          /\ \A k \in 1..Len(built') :
                built'[k].slot \in DOMAIN Changed /\ Changed[built'[k].slot]
          /\ \A s \in 0..(NSLOTS - 1) :
                (Changed[s] /\ s < ret'.visited) => ~Changed'[s]
          /\ \A s \in 0..(NSLOTS - 1) :
                ~Changed[s] => \A k \in 1..Len(built') : built'[k].slot # s]_vars

\* a sync_out that found marked slots, built their commands and cleared them
C3_Witness ==
    /\ ret.op = "sync_out" /\ ret.visited = NSLOTS
    /\ Len(built) > 0 /\ Len(built) < NSLOTS
    /\ \A s \in DOMAIN Changed : ~Changed[s]

\* C4: a sync_in that fails leaves the image held before the call in place,
\* byte for byte.
C4_FailedSyncInKeepsImage ==
    [][\A plan \in FaultPlans :
          (mmap.kind = "MemoryMapBytes" /\ sync_in(plan) /\ ret'.outcome # "ok")
              => mmap' = mmap]_vars

\* C5: a sync_in that completes normally got, for every window it requested,
\* a whole reply with a valid checksum and 64 payload bytes.
C5_SyncInValidates ==
    (ret.op = "sync_in" /\ ret.outcome = "ok") =>
        /\ ret.plan.kind = "good"
        /\ Len(mmap.data) = 64 * ret.nreq

\* C6: after a successful sync_in every slot s of 0..199 was requested from
\* the device and the 64 image bytes at 0x0C00 + 64s are what the device
\* holds at that address.
C6_SyncInCoversSlots ==
    (ret.op = "sync_in" /\ ret.outcome = "ok" /\ ret.plan = NoFault) =>
        \A s \in 0..(NSLOTS - 1) :
            /\ \E k \in 1..ret.nreq : SyncInWindows[k] = SlotAddr(s)
            /\ Slice(mmap.data, SlotAddr(s), SlotAddr(s) + 64)
                   = RadioBlock(SlotAddr(s), 64)

\* C7: when sync_in completes normally all 200 entries of Changed are false.
C7_SyncInResetsChanged ==
    (ret.op = "sync_in" /\ ret.outcome = "ok") =>
        /\ DOMAIN Changed = 0..199
        /\ \A s \in DOMAIN Changed : ~Changed[s]

\* a sync_in completed while slots were marked
C7_Witness ==
    ret.op = "sync_in" /\ ret.outcome = "ok" /\ ret.dirty # {}

\* C8: the checksum in a read command for address a and length 0x40, built
\* by _cmd_get_memory or by sync_in, is the sum of the two address bytes and
\* the length byte, less 1, masked to 8 bits and XORed with 0xFF (255 - x
\* for a byte x); 0xB4 for address 0x0C00.
ReadAddress == IF cmd.by = "sync_in" THEN cmd.arg ELSE SlotAddr(cmd.arg)

C8_ReadChecksum ==
    cmd.by \in {"_cmd_get_memory", "sync_in"} =>
        LET a == ReadAddress
            c == IntHex(Slice(cmd.text, Len(cmd.text) - 2, Len(cmd.text)))
        IN  /\ c = 255 - (((a \div 256) + (a % 256) + 64 - 1) % 256)
            /\ a = 3072 => c = 180

\* both builders have produced the command for address 0x0C00
C8_Witness ==
    cmd.by = "sync_in" /\ ReadAddress = 3072 /\ Len(cmd.text) = 10

\* C9: a read command is 'ER' and 8 hexadecimal digits: 4 of address, 2 of
\* length, 2 of checksum.
C9_ReadCommandShape ==
    cmd.by \in {"_cmd_get_memory", "sync_in"} =>
        /\ Len(cmd.text) = 10
        /\ Slice(cmd.text, 0, 2) = <<"E", "R">>
        /\ IsHex(Slice(cmd.text, 2, 10))
        /\ IntHex(Slice(cmd.text, 2, 6)) = ReadAddress
        /\ IntHex(Slice(cmd.text, 6, 8)) = 64

\* C10: the command built for a changed slot at address a with window p is
\* 'EW', a as 4 hexadecimal digits, p in hexadecimal and 2 hexadecimal
\* digits of checksum over the address bytes and p.
C10_WriteCommandShape ==
    ret.op = "sync_out" =>
        \A k \in 1..Len(built) :
            LET a == SlotAddr(built[k].slot)
                q == Slice(mmap.data, a, a + 64)
                c == 255 - (((a \div 256) + (a % 256) + Sum(q) - 1) % 256)
            IN  built[k].text = <<"E", "W">> \o HexW(a, 4) \o HexOf(q) \o HexW(c, 2)

\* C11: for every frequency f of 0..999999999 whose five digit groups fit a
\* byte each, radio_to_freq(freq_to_radio(f)) = f; freq_to_radio(0) is five
\* 0xFF bytes, which decode to 0.
C11_FreqRoundTrip ==
    cmd.by = "freq_to_radio" =>
        /\ \A k \in 1..5 : cmd.bytes[k] \in 0..255
        /\ Len(cmd.bytes) = 5
        /\ cmd.back = cmd.arg
        /\ cmd.arg = 0 => (cmd.bytes = <<255, 255, 255, 255, 255>> /\ cmd.back = 0)

\* 14.0745 MHz went through both conversions
C11_Witness ==
    cmd.by = "freq_to_radio" /\ cmd.arg = 14074500 /\ cmd.bytes = <<14, 7, 45, 0, 0>>
\* C12: every mode name of ALLMODESd, encoded to its 5-tuple and decoded by
\* table lookup, comes back as itself: no two names share a tuple.
C12_ModeBijection ==
    cmd.by = "mode" =>
        /\ cmd.back = cmd.arg
        /\ \A m \in DOMAIN ALLMODESd : ALLMODESd[m] = cmd.tuple => m = cmd.arg
\* the 64-byte window of slot n in the image, the number of its bytes that
\* are neither 0x00 nor 0xFF, and the mode fields stored in it
Window(n) == Slice(mmap.data, SlotAddr(n), SlotAddr(n) + 64)
NonBlank(w) == Cardinality({k \in 1..Len(w) : w[k] \notin {0, 255}})
StoredModeA(w) ==
    <<Rd(w, F_modea(0)), Rd(w, F_digimode(0)), Rd(w, F_lsb(0)), Rd(w, F_rev(0)),
      Rd(w, F_flag4(0))>>

C14_EmptyByCount ==
    ret.op = "get_memory" =>
        ((ret.got.outcome = "ok" /\ ret.got.empty)
            <=> NonBlank(Window(ret.number)) <= 4)

\* C15: for a non-empty record whose mode fields equal the tuple of a table
\* entry, the mode of the memory get_memory returns is that entry's name;
\* primary 2 with the other mode fields zero gives "USB".
C15_ModeOfRecord ==
    (/\ ret.op = "get_memory"
     /\ NonBlank(Window(ret.number)) > 4
     /\ ModeIndex(StoredModeA(Window(ret.number))) >= 0
     /\ ret.got.outcome = "ok")
        => /\ ret.got.mode \in DOMAIN ALLMODESd
           /\ ALLMODESd[ret.got.mode] = StoredModeA(Window(ret.number))
           /\ StoredModeA(Window(ret.number)) = <<2, 0, 0, 0, 0>>
                  => ret.got.mode = "USB"

\* C16: no thread writes to or reads from the port while another thread is
\* inside an exchange on it (has written its request and has not finished
\* reading the answer); the delimiter write and the flush read of get_id
\* count as accesses.
C16_PortExclusive == port.access.during = {}

\* C17: an exchange that ends at the deadline, the delimiter not having
\* arrived, is reported to the caller as failed, and the bytes received so
\* far are not handed back as its response.
C17_TimeoutFails ==
    \A t \in Threads :
        thr[t].ex.kind = "returned"
        => (~thr[t].ex.timedout \/ thr[t].ex.received = <<>>)

\* C18: a set_memory on slot n that fails partway (a tone that is not in
\* the tone table, a mode name that is not in the mode table) leaves the 64
\* bytes of slot n in the image byte for byte as they were before the call.
C18_SetMemoryAllOrNothing ==
    [][\A memory \in Memories :
          (/\ set_memory(memory)
           /\ memobj.kind = "view"
           /\ SlotAddr(memory.number) + 64 <= Len(mmap.data)
           /\ ret'.outcome # "ok")
          => Window(memory.number)' = Window(memory.number)]_vars

\* C19: get_id comes to an end having probed each rate at most once; it
\* ends in RadioError exactly when no rate it probed gave an answer holding
\* a blank or a known numeric ID, and otherwise it returns a model.
GetIdEnded == thr["probe"].pc = "idle" /\ thr["probe"].runs > 0

C19_GetIdOutcome ==
    LET p == thr["probe"]
    IN  /\ \A j, k \in 1..Len(p.probed) : p.probed[j] = p.probed[k] => j = k
        /\ GetIdEnded =>
             /\ p.out.kind \in {"RadioError", "model"}
             /\ p.out.kind = "RadioError" <=> ~p.matched

\* C20: get_id probes LAST_BAUD first and then the other rates of {4800,
\* 9600, 19200, 38400, 57600, 115200} from the highest to the lowest, each
\* rate once; LAST_BAUD is always one of the six.
Descending(q) == \A j, k \in 1..Len(q) : j < k => q[j] > q[k]

C20_ProbeOrder ==
    LET p == thr["probe"].probed
    IN  /\ LAST_BAUD \in {4800, 9600, 19200, 38400, 57600, 115200}
        /\ Len(p) <= 6
        /\ Len(p) > 0 =>
             /\ p[1] = thr["probe"].start
             /\ Descending(Tail(p))
             /\ \A k \in 2..Len(p) :
                    p[k] \in {4800, 9600, 19200, 38400, 57600, 115200} \ {p[1]}
        /\ (thr["probe"].out.kind = "RadioError") => Len(p) = 6

\* a get_id that began with LAST_BAUD = 9600 has gone through all six rates
C20_Witness ==
    /\ thr["probe"].out.kind = "RadioError"
    /\ thr["probe"].probed = <<9600, 115200, 57600, 38400, 19200, 4800>>

\* C21: LAST_BAUD is the last rate at which the radio was identified: a
\* get_id that returns a model leaves LAST_BAUD at the rate where the radio
\* answered, and a get_id that ends in RadioError leaves LAST_BAUD as it
\* was when the call began.
C21_LastBaudTracksSuccess ==
    LET p == thr["probe"]
    IN  GetIdEnded =>
          /\ p.out.kind = "model" => LAST_BAUD = p.i
          /\ p.out.kind = "RadioError" => LAST_BAUD = p.start

\* C22: at one rate get_id sends the ID command at most twice, the second
\* time only when the first answer at that rate holds a '?'.
C22_AtMostTwoIds ==
    [][LET p == thr["probe"]
           q == thr'["probe"]
       IN  /\ q.ids <= 2
           /\ (p.ids = 1 /\ q.ids = 2) => Contains(p.resp, "?")]_vars

\* the second ID command of a rate has been written
C22_Witness == thr["probe"].ids = 2 /\ thr["probe"].pc = "read"

\* C23: sync_out goes through the slots 0..199, each once and in ascending
\* order, never indexes Changed outside 0..199, and returns normally, for
\* every Changed and every image a sync_in has left.
C23_SyncOutVisitsSlots ==
    (ret.op = "sync_out" /\ mmap.kind = "MemoryMapBytes")
    => (ret.outcome = "ok" /\ ret.visited = NSLOTS)

\* C28: for a record whose Mode A primary nibble is the erased value 0xF,
\* whatever its reverse bit, sideband bit and submode, get_memory does not
\* fail on the mode, and the Mode A it reports has primary mode AM (4) and
\* submode 0.
C28_ErasedModeIsAM ==
    (ret.op = "get_memory" /\ Rd(Window(ret.number), F_modea(0)) = 15)
    => /\ ~(ret.got.outcome = "ValueError" /\ ret.got.line = 600)
       /\ ret.got.outcome = "ok" =>
             /\ ALLMODESd[ret.got.modea][1] = 4
             /\ ALLMODESd[ret.got.modea][2] = 0

\* C25: in a non-empty record an offset byte of 0xFF decodes as offset byte
\* 0 does, to a shift of 0 with no direction; any other byte b decodes to
\* b * 20000 Hz, with direction '-' when the minus bit is set and '+'
\* otherwise.
C25_OffsetDecode ==
    LET w == Window(ret.number)
        b == Rd(w, F_offset(0))
    IN  (ret.op = "get_memory" /\ NonBlank(w) > 4 /\ ret.got.outcome = "ok")
        => IF b \in {0, 255}
           THEN ret.got.offset = 0 /\ ret.got.duplex \notin {"+", "-"}
           ELSE /\ ret.got.offset = b * 20000
                /\ ret.got.duplex = IF Rd(w, F_minus(0)) = 1 THEN "-" ELSE "+"

\* C27: for every subtone byte b of a non-empty record the tone decodes:
\* b = 0 gives no tone, b above the length of the tone table gives the
\* 1750 Hz burst and no tone, and any other b gives the table's entry b.
C27_ToneDecode ==
    LET w == Window(ret.number)
        b == Rd(w, F_subtone(0))
    IN  (/\ ret.op = "get_memory"
         /\ NonBlank(w) > 4
         /\ ModeIndex(ModeATuple(w, FALSE)) >= 0
         /\ ModeIndex(ModeBTuple(w, FALSE)) >= 0)
        => /\ ret.got.outcome = "ok"
           /\ IF b = 0 THEN ret.got.rtone = 0 /\ ~ret.got.burst
              ELSE IF b > Len(Elecraft_TONES)
              THEN ret.got.rtone = 0 /\ ret.got.burst
              ELSE ret.got.rtone = Elecraft_TONES[b + 1] /\ ~ret.got.burst

\* C24: for every pair (a, b) of names of the mode table, set_memory with
\* Mode A = a and Mode B = b followed by get_memory of the slot succeeds
\* and reports Mode A = a and Mode B = b.
C24_ModePairRoundTrip ==
    [][(/\ ret.op = "set_memory" /\ ret.outcome = "ok" /\ ~ret.empty
        /\ ret'.op = "get_memory" /\ ret'.number = ret.number)
       => /\ ret'.got.outcome = "ok"
          /\ ret'.got.modea = ret.memory.modea
          /\ ret'.got.modeb = ret.memory.modeb]_vars

\* C26: for a name of up to 5 characters, set_memory followed by
\* get_memory gives the name back with the characters of the alphabet
\* (blank, A-Z, 0-9, *+/@_) as they were, every other character replaced
\* by '.', and the trailing blanks removed.
InAlphabet(c) == \E k \in 1..Len(VALID_CHARS) : VALID_CHARS[k] = c

NameExpected(nm) ==
    RstripStr([k \in 1..Len(nm) |-> IF InAlphabet(nm[k]) THEN nm[k] ELSE "."])

C26_NameRoundTrip ==
    [][(/\ ret.op = "set_memory" /\ ret.outcome = "ok" /\ ~ret.empty
        /\ ret'.op = "get_memory" /\ ret'.number = ret.number
        /\ ret'.got.outcome = "ok")
       => ret'.got.name = NameExpected(ret.memory.name)]_vars

Reserved(w) ==
    <<Rd(w, F_unk(0)), Rd(w, F_unk0(0)), Rd(w, F_unk01(0)), Rd(w, F_unk1(0)),
      Rd(w, F_unk3(0)), Rd(w, F_unk4(0)), Rd(w, F_unk5(0)), Rd(w, F_unk6(0)),
      Rd(w, F_flag3(0)), RdBytes(w, F_flags(<<0, 0, 0, 0>>)),
      RdBytes(w, F_unknown(FF5 \o Slice(FF5, 0, -1))),
      Rd(w, F_band(0)), Rd(w, F_xv(0)), Rd(w, F_ant(0)), Rd(w, F_rxant(0)),
      Rd(w, F_pre(0)), Rd(w, F_att(0)), Rd(w, F_nb(0)), Rd(w, F_split(0)),
      Rd(w, F_tone(0)), Rd(w, F_duplex(0))>>

C30_ReservedKept ==
    [][\A n \in 0..(NSLOTS - 1) :
         (/\ ret'.op = "set_memory" /\ calls' = calls + 1 /\ ret'.number = n
          /\ ~ret'.empty)
         => Reserved(Window(n))' = Reserved(Window(n))]_vars

\* a non-empty memory has been stored over a record whose reserved fields
\* are neither all ones nor all zeros
C30_Witness ==
    /\ ret.op = "set_memory" /\ ret.outcome = "ok" /\ ~ret.empty
    /\ Reserved(Window(ret.number)) = Reserved(PatternRec)
    /\ Rd(Window(ret.number), F_modea(0)) = 2
====
